---- MODULE Spec2Model ----
(***************************************************************************)
(* tui_wrapper: the UI struct that owns the terminal and drives an         *)
(* application's draw / input / tick cycle.                                *)
(*                                                                         *)
(* The crate holds the UI twice: in src/lib.rs (the crate root, which      *)
(* forwards key events only) and in src/ui.rs (which forwards every event  *)
(* it reads).  `variant` says which of the two a behaviour runs.           *)
(*                                                                         *)
(* Time is the monotonic clock behind Instant::now(), in whole units and   *)
(* measured from the start of the current run_ticked call.                 *)
(***************************************************************************)
EXTENDS Integers, Sequences, FiniteSets, TLC

\* ---------------------------------------------------------------- bounds
MaxRate  == 1   \* largest tick_rate handed to new_ticked
MaxStep  == 2   \* longest a single callback (draw, on_input_received, on_tick) takes
MaxTime  == 3   \* the clock is followed up to this instant
MaxIters == 2   \* loop iterations followed per run / run_ticked call
MaxExtra == 1   \* UI values constructed while another UI is live

VARIABLES
    variant,    \* "lib" (src/lib.rs) or "ui" (src/ui.rs)
    term,       \* the terminal: [raw, mouse, alt, cursor]
    phase,      \* "none": no UI value; "live": a UI exists; "teardown": destroy_app
                \* failed part-way; "released": destroy_app succeeded
    tick_rate,  \* UI.tick_rate: Option<Duration>, <<>> for None and <<T>> for Some(T)
    appTicked,  \* the application type implements Ticked
    closed,     \* what App::is_closed returns
    pc,         \* where the current run / run_ticked call stands
    mode,       \* "run", "run_ticked" or "none": the operation in progress
    now,        \* the clock
    last_tick,  \* the local last_tick of run_ticked
    timeout,    \* the local timeout of run_ticked
    trace,      \* what this run call did so far: the calls it made, in order
    iters,      \* iterations this run call completed
    closeIdx,   \* position in trace of the call that turned is_closed true, else 0
    closedAt,   \* the instant at which it did
    ctor,       \* the last constructor call: "none", "new", "new_ticked", or
                \* "failed" when it returned Err
    newSteps,   \* the terminal steps that call got through
    extra       \* UI values constructed while this UI was live, and still alive

\* What the constructors leave behind, which no other operation touches.
setup == <<ctor, newSteps>>

vars == <<variant, term, phase, tick_rate, appTicked, closed, pc, mode, now,
          last_tick, timeout, trace, iters, closeIdx, closedAt, ctor, newSteps,
          extra>>

\* ------------------------------------------------------------ data types
EventKinds == {"Key", "Resize", "Mouse"}

None == <<>>
Some(x) == <<x>>

CookedTerm == [raw |-> FALSE, mouse |-> FALSE, alt |-> FALSE, cursor |-> TRUE]

\* One entry of the trace: an application call (is_closed, draw,
\* on_input_received, on_tick), a terminal call (terminal.draw, read, poll)
\* with its result, or the diagnostic (eprintln, panic).
Entry(op, ev, res) == [op |-> op, ev |-> ev, res |-> res]

AppCalls == {"is_closed", "draw", "on_input_received", "on_tick"}

RECURSIVE Count(_, _)
Count(s, op) ==
    IF s = <<>> THEN 0
    ELSE (IF Head(s).op = op THEN 1 ELSE 0) + Count(Tail(s), op)

\* ------------------------------------------------------- pure operations

\* Duration::checked_sub: None when the result would be negative.
CheckedSub(a, b) == IF a >= b THEN Some(a - b) ELSE None

\* Option::unwrap_or
UnwrapOr(o, dflt) == IF o = None THEN dflt ELSE o[1]

\* tick_rate.checked_sub(last_tick.elapsed()).unwrap_or(Duration::from_secs(0))
TimeoutWrapping(tr, elapsed) == tr - elapsed
Timeout(tr, elapsed) == UnwrapOr(CheckedSub(tr, elapsed), 0)

\* last_tick.elapsed() >= self.tick_rate.unwrap()
TickDueStrict(elapsed, tr) == elapsed > tr
TickDueAlways(elapsed, tr) == TRUE
TickDue(elapsed, tr) == elapsed >= tr

\* The guard at the head of run (`if let Some(_) = self.tick_rate`) and of
\* run_ticked (`if let None = self.tick_rate`).
MismatchNever(op, tr) == FALSE
MismatchCopied(op, tr) == tr # None
Mismatch(op, tr) ==
    \/ op = "run" /\ tr # None
    \/ op = "run_ticked" /\ tr = None

\* Whether the event read is handed to on_input_received:
\* lib.rs `if let Event::Key(event) = event::read()?`; ui.rs hands on every event.
Forwarded(v, e) == IF v = "lib" THEN e = "Key" ELSE TRUE

\* `while !self.app.is_closed()`: where the loop head goes.
LoopHeadSkipsDraw(c, m) ==
    IF c THEN "terminated" ELSE IF m = "run" THEN "read" ELSE "tickcheck"
LoopHeadDoWhile(c, m) == "draw"
LoopHead(c, m) == IF c THEN "terminated" ELSE "draw"

\* The `?` operator: an Err returns from the run operation at once.
TrySwallow(ok, next) == next
Try(ok, next) == IF ok THEN next ELSE "faulted"

\* The terminal after destroy_app got through its first k steps
\* (disable_raw_mode; DisableMouseCapture; LeaveAlternateScreen; show_cursor).
DestroyStepsNoCursor(t, k) ==
    [raw    |-> IF k >= 1 THEN FALSE ELSE t.raw,
     mouse  |-> IF k >= 2 THEN FALSE ELSE t.mouse,
     alt    |-> IF k >= 3 THEN FALSE ELSE t.alt,
     cursor |-> t.cursor]
DestroySteps(t, k) ==
    [raw    |-> IF k >= 1 THEN FALSE ELSE t.raw,
     mouse  |-> IF k >= 2 THEN FALSE ELSE t.mouse,
     alt    |-> IF k >= 3 THEN FALSE ELSE t.alt,
     cursor |-> IF k >= 4 THEN TRUE ELSE t.cursor]

\* The terminal after the panic of a mismatched run unwound: UI has no Drop
\* and nothing catches the panic, so the terminal is as it was.
PanicTermRestored(t) == CookedTerm
PanicTerm(t) == t

\* What a mismatched run writes to stderr, then the panic.
DiagnosticSilent(op) == <<Entry("panic", "", "")>>
Diagnostic(op) ==
    <<Entry("eprintln", IF op = "run"
                        THEN "run in conjunction with new_ticked"
                        ELSE "run_ticked in conjunction with new", ""),
      Entry("eprintln", "new + run, and new_ticked + run_ticked", ""),
      Entry("panic", "", "")>>

\* The terminal after new / new_ticked got through its first k steps
\* (enable_raw_mode; EnableMouseCapture; EnterAlternateScreen).
AcquireStepsRollback(t, k) ==
    IF k < 3 THEN t
    ELSE [raw |-> TRUE, mouse |-> TRUE, alt |-> TRUE, cursor |-> t.cursor]
AcquireSteps(t, k) ==
    [raw    |-> IF k >= 1 THEN TRUE ELSE t.raw,
     mouse  |-> IF k >= 2 THEN TRUE ELSE t.mouse,
     alt    |-> IF k >= 3 THEN TRUE ELSE t.alt,
     cursor |-> t.cursor]

\* ------------------------------------------------------------------ Init
Init ==
    /\ variant \in {"lib", "ui"}
    /\ term = CookedTerm
    /\ phase = "none"
    /\ tick_rate = None
    /\ appTicked = FALSE
    /\ closed = FALSE
    /\ pc = "idle"
    /\ mode = "none"
    /\ now = 0
    /\ last_tick = 0
    /\ timeout = 0
    /\ trace = <<>>
    /\ iters = 0
    /\ closeIdx = 0
    /\ closedAt = 0
    /\ ctor = "none"
    /\ newSteps = 0
    /\ extra = 0

\* ---------------------------------------------------------- construction

\* The fields every constructor call resets.
FreshRun ==
    /\ pc' = "idle"
    /\ mode' = "none"
    /\ now' = 0
    /\ last_tick' = 0
    /\ timeout' = 0
    /\ trace' = <<>>
    /\ iters' = 0
    /\ closeIdx' = 0
    /\ closedAt' = 0

\* UI::new(app): k is the number of terminal steps that took effect; the
\* call succeeds when all three did and Terminal::new succeeded too.  The
\* application moves into the UI (and is dropped when the call fails).
New ==
    /\ phase \in {"none", "released"}
    /\ \E k \in 0..3, ok \in BOOLEAN, c \in BOOLEAN, t \in BOOLEAN :
        /\ ok => k = 3
        /\ term' = AcquireSteps(term, k)
        /\ phase' = IF ok THEN "live" ELSE "none"
        /\ tick_rate' = None
        /\ appTicked' = (ok /\ t)
        /\ closed' = (ok /\ c)
        /\ ctor' = IF ok THEN "new" ELSE "failed"
        /\ newSteps' = k
    /\ FreshRun
    /\ UNCHANGED <<variant, extra>>

\* UI::new_ticked(app, tick_rate): only for an application that is Ticked.
NewTicked ==
    /\ phase \in {"none", "released"}
    /\ \E k \in 0..3, ok \in BOOLEAN, c \in BOOLEAN, tr \in 0..MaxRate :
        /\ ok => k = 3
        /\ term' = AcquireSteps(term, k)
        /\ phase' = IF ok THEN "live" ELSE "none"
        /\ tick_rate' = IF ok THEN Some(tr) ELSE None
        /\ appTicked' = ok
        /\ closed' = (ok /\ c)
        /\ ctor' = IF ok THEN "new_ticked" ELSE "failed"
        /\ newSteps' = k
    /\ FreshRun
    /\ UNCHANGED <<variant, extra>>

\* UI::new or UI::new_ticked called while a UI is live: nothing in the
\* constructors looks for an existing UI, so the call goes through the same
\* steps and, when they succeed, returns one more UI over the same terminal.
\* It is followed for a caller that builds its UIs before running any.
NewSecond ==
    /\ phase = "live"
    /\ pc = "idle"
    /\ extra < MaxExtra
    /\ \E k \in 0..3, ok \in BOOLEAN :
        /\ ok => k = 3
        /\ term' = AcquireSteps(term, k)
        /\ extra' = IF ok THEN extra + 1 ELSE extra
    /\ UNCHANGED <<variant, phase, tick_rate, appTicked, closed, pc, mode, now,
                   last_tick, timeout, trace, iters, closeIdx, closedAt>>
    /\ UNCHANGED setup

\* A second UI going out of scope: UI has no Drop, so the terminal is untouched.
DropSecond ==
    /\ extra > 0
    /\ extra' = extra - 1
    /\ UNCHANGED <<variant, term, phase, tick_rate, appTicked, closed, pc, mode,
                   now, last_tick, timeout, trace, iters, closeIdx, closedAt>>
    /\ UNCHANGED setup

\* UI::destroy_app: k steps took effect; it succeeds when all four did.  A
\* caller whose destroy_app failed may call it again, and does not go back to
\* running the application.
DestroyApp ==
    /\ phase \in {"live", "teardown"}
    /\ pc \in {"idle", "terminated", "faulted"}
    /\ \E k \in 0..4 :
        /\ term' = DestroySteps(term, k)
        /\ phase' = IF k = 4 THEN "released" ELSE "teardown"
    /\ UNCHANGED <<variant, tick_rate, appTicked, closed, pc, mode, now,
                   last_tick, timeout, trace, iters, closeIdx, closedAt>>
    /\ UNCHANGED <<setup, extra>>

\* ------------------------------------------------------------- the loop

\* How long a callback takes.  run never reads the clock, so time stands
\* still there.
Durations == IF mode = "run_ticked" THEN 0..MaxStep ELSE {0}

\* What a callback may do to the application's closed flag.
MaySet(c) == {c, TRUE}

\* A callback that starts now, takes d, is logged at position i and leaves
\* the flag at c: when it turns the flag, it does so at some instant `at` of
\* the call.
Callback(d, c, i) ==
    /\ now + d <= MaxTime
    /\ now' = now + d
    /\ closed' = c
    /\ IF ~closed /\ c
       THEN /\ closeIdx' = i
            /\ \E at \in now..(now + d) : closedAt' = at
       ELSE UNCHANGED <<closeIdx, closedAt>>

\* The start of run / run_ticked: the mode check, then the loop head.  A
\* second UI changes nothing the loop reads, so runs are followed without one.
Enter(op) ==
    /\ phase = "live"
    /\ extra = 0
    /\ pc \in {"idle", "terminated", "faulted"}
    /\ mode' = op
    /\ now' = 0
    /\ last_tick' = 0
    /\ timeout' = 0
    /\ iters' = 0
    /\ closeIdx' = 0
    /\ closedAt' = 0
    /\ IF Mismatch(op, tick_rate)
       THEN /\ trace' = Diagnostic(op)
            /\ pc' = "panicked"
            /\ term' = PanicTerm(term)
       ELSE /\ trace' = <<>>
            /\ pc' = "check"
            /\ term' = term
    /\ UNCHANGED <<variant, phase, tick_rate, appTicked, closed>>
    /\ UNCHANGED <<setup, extra>>

\* UI::run
Run == Enter("run")

\* UI::run_ticked, which exists only for A: App + Ticked
RunTicked == appTicked /\ Enter("run_ticked")

\* `while !self.app.is_closed()`
IsClosed ==
    /\ pc = "check"
    /\ closed \/ iters < MaxIters
    /\ trace' = Append(trace, Entry("is_closed", "", ""))
    /\ pc' = LoopHead(closed, mode)
    /\ UNCHANGED <<variant, term, phase, tick_rate, appTicked, closed, mode, now,
                   last_tick, timeout, iters, closeIdx, closedAt>>
    /\ UNCHANGED <<setup, extra>>

\* Where the loop goes after a successful terminal.draw.
AfterDrawRechecks == IF mode = "run" THEN "check" ELSE "poll"
AfterDraw == IF mode = "run" THEN "read" ELSE "poll"

\* `self.terminal.draw(|f| self.app.draw(f))?` and, in run_ticked, the
\* timeout computed right after it.  Terminal::draw calls the closure, flushes,
\* and hides the cursor (the applications followed here never place it).
Draw ==
    /\ pc = "draw"
    /\ \E d \in Durations, c \in MaySet(closed), ok \in BOOLEAN :
        /\ Callback(d, c, Len(trace) + 1)
        /\ term' = [term EXCEPT !.cursor = FALSE]
        /\ trace' = trace \o <<Entry("draw", "", ""),
                               Entry("terminal.draw", "", IF ok THEN "ok" ELSE "err")>>
        /\ pc' = Try(ok, AfterDraw)
        /\ timeout' = IF ok /\ mode = "run_ticked"
                      THEN Timeout(tick_rate[1], now' - last_tick)
                      ELSE timeout
    /\ UNCHANGED <<variant, phase, tick_rate, appTicked, mode, last_tick, iters>>
    /\ UNCHANGED <<setup, extra>>

\* terminal.draw failing before it reaches the closure (autoresize).
DrawFailEarly ==
    /\ pc = "draw"
    /\ trace' = Append(trace, Entry("terminal.draw", "", "err"))
    /\ pc' = Try(FALSE, AfterDraw)
    /\ UNCHANGED <<variant, term, phase, tick_rate, appTicked, closed, mode, now,
                   last_tick, timeout, iters, closeIdx, closedAt>>
    /\ UNCHANGED <<setup, extra>>

\* Where the loop goes after the read: run ends its iteration, run_ticked
\* goes on to the tick check.
AfterReadAlwaysTicks == "tickcheck"
AfterReadSkipsTick == "check"
AfterRead == IF mode = "run" THEN "check" ELSE "tickcheck"

\* event::read()? and the dispatch to on_input_received.  In run the read
\* blocks until the terminal has an event e; in run_ticked it follows a poll
\* that returned true.
Read ==
    /\ pc = "read"
    /\ \E e \in EventKinds, d \in Durations, c \in MaySet(closed) :
        LET fwd == Forwarded(variant, e)
        IN  /\ ~fwd => (d = 0 /\ c = closed)
            /\ Callback(d, c, Len(trace) + 2)
            /\ trace' = trace \o <<Entry("read", e, "ok")>> \o
                        (IF fwd THEN <<Entry("on_input_received", e, "")>> ELSE <<>>)
    /\ pc' = AfterRead
    /\ iters' = IF mode = "run" THEN iters + 1 ELSE iters
    /\ UNCHANGED <<variant, term, phase, tick_rate, appTicked, mode, last_tick,
                   timeout>>
    /\ UNCHANGED <<setup, extra>>

\* is_closed(&self) may read state that something other than the loop's
\* callbacks sets (a flag shared with another thread): it turns true while
\* run is blocked in event::read.
CloseAsync ==
    /\ pc = "read"
    /\ mode = "run"
    /\ ~closed
    /\ closed' = TRUE
    /\ closeIdx' = Len(trace)
    /\ closedAt' = now
    /\ UNCHANGED <<variant, term, phase, tick_rate, appTicked, pc, mode, now,
                   last_tick, timeout, trace, iters>>
    /\ UNCHANGED <<setup, extra>>

\* event::read() returning Err.
ReadFail ==
    /\ pc = "read"
    /\ trace' = Append(trace, Entry("read", "", "err"))
    /\ pc' = Try(FALSE, AfterRead)
    /\ UNCHANGED <<variant, term, phase, tick_rate, appTicked, closed, mode, now,
                   last_tick, timeout, iters, closeIdx, closedAt>>
    /\ UNCHANGED <<setup, extra>>

\* event::poll(timeout)? returning true: an event is there w units into the
\* wait, within the timeout.
Poll ==
    /\ pc = "poll"
    /\ \E w \in 0..timeout :
        /\ now + w <= MaxTime
        /\ now' = now + w
    /\ trace' = Append(trace, Entry("poll", "true", "ok"))
    /\ pc' = "read"
    /\ UNCHANGED <<variant, term, phase, tick_rate, appTicked, closed, mode,
                   last_tick, timeout, iters, closeIdx, closedAt>>
    /\ UNCHANGED <<setup, extra>>

\* event::poll(timeout)? returning false: nothing arrived for the whole timeout.
PollTimeout ==
    /\ pc = "poll"
    /\ now + timeout <= MaxTime
    /\ now' = now + timeout
    /\ trace' = Append(trace, Entry("poll", "false", "ok"))
    /\ pc' = "tickcheck"
    /\ UNCHANGED <<variant, term, phase, tick_rate, appTicked, closed, mode,
                   last_tick, timeout, iters, closeIdx, closedAt>>
    /\ UNCHANGED <<setup, extra>>

\* event::poll(timeout) returning Err.
PollFail ==
    /\ pc = "poll"
    /\ trace' = Append(trace, Entry("poll", "", "err"))
    /\ pc' = Try(FALSE, "tickcheck")
    /\ UNCHANGED <<variant, term, phase, tick_rate, appTicked, closed, mode, now,
                   last_tick, timeout, iters, closeIdx, closedAt>>
    /\ UNCHANGED <<setup, extra>>

\* `if last_tick.elapsed() >= tick_rate { on_tick(); last_tick = Instant::now() }`,
\* which ends the iteration.
TickCheck ==
    /\ pc = "tickcheck"
    /\ IF TickDue(now - last_tick, tick_rate[1])
       THEN \E d \in Durations, c \in MaySet(closed) :
                /\ Callback(d, c, Len(trace) + 1)
                /\ last_tick' = now'
                /\ trace' = Append(trace, Entry("on_tick", "", ""))
       ELSE UNCHANGED <<now, last_tick, closed, trace, closeIdx, closedAt>>
    /\ pc' = "check"
    /\ iters' = iters + 1
    /\ UNCHANGED <<variant, term, phase, tick_rate, appTicked, mode, timeout>>
    /\ UNCHANGED <<setup, extra>>

\* ------------------------------------------------- reading the trace

\* The number of calls of op this run call made.
Calls(op) == Count(trace, op)

\* The events read (op = "read") or dispatched (op = "on_input_received"), in order.
RECURSIVE EventsOf(_, _)
EventsOf(s, op) ==
    IF s = <<>> THEN <<>>
    ELSE (IF Head(s).op = op /\ Head(s).ev \in EventKinds THEN <<Head(s).ev>> ELSE <<>>)
         \o EventsOf(Tail(s), op)

IsKey(e) == e = "Key"

\* The application calls of the current iteration: those after the last is_closed.
RECURSIVE IterCalls(_)
IterCalls(s) ==
    IF s = <<>> THEN <<>>
    ELSE LET last == s[Len(s)]
             rest == SubSeq(s, 1, Len(s) - 1)
         IN  IF last.op = "is_closed" THEN <<>>
             ELSE IF last.op \in AppCalls THEN Append(IterCalls(rest), last.op)
             ELSE IterCalls(rest)

Failed == {i \in DOMAIN trace : trace[i].res = "err"}

\* on_tick calls up to and including position i of the trace.
TicksUpTo(i) == Count(SubSeq(trace, 1, i), "on_tick")

\* --------------------------------------------------------------- claims

\* C1: a run operation that does not match the construction mode (run on a
\* UI made by new_ticked, run_ticked on a UI made by new) panics without
\* entering the loop: no draw, no on_input_received, no on_tick, no read and
\* no poll in that call.
C1_MismatchPanicsBeforeLoop ==
    ((mode = "run" /\ tick_rate # None) \/ (mode = "run_ticked" /\ tick_rate = None))
        => /\ pc = "panicked"
           /\ \A op \in {"draw", "on_input_received", "on_tick", "read", "poll"} :
                Calls(op) = 0

\* The crate's test: new, then run_ticked.
C1_Witness == mode = "run_ticked" /\ tick_rate = None /\ pc = "panicked"

\* C2: in run, the events handed to on_input_received are exactly the key
\* events among the events read, in order.
C2_OnlyKeysForwarded ==
    mode = "run" =>
        EventsOf(trace, "on_input_received") = SelectSeq(EventsOf(trace, "read"), IsKey)

C4_ClosedFromStart ==
    (mode = "run" /\ tick_rate = None /\ closed /\ closeIdx = 0)
        => \/ pc = "check" /\ trace = <<>>
           \/ pc = "terminated" /\ trace = <<Entry("is_closed", "", "")>>

C4_Witness ==
    mode = "run" /\ tick_rate = None /\ closed /\ closeIdx = 0 /\ pc = "terminated"

\* C5: when is_closed turns true during the k-th on_tick, run_ticked makes no
\* call after that on_tick but the is_closed that ends the loop, returns Ok
\* with exactly k on_tick calls, and at least k intervals have elapsed.
C5_ClosedByTick ==
    (mode = "run_ticked" /\ closeIdx > 0 /\ trace[closeIdx].op = "on_tick")
        => LET k == TicksUpTo(closeIdx)
               after == SubSeq(trace, closeIdx + 1, Len(trace))
           IN  /\ \/ pc = "check" /\ after = <<>>
                  \/ pc = "terminated" /\ after = <<Entry("is_closed", "", "")>>
               /\ Calls("on_tick") = k
               /\ now >= k * tick_rate[1]

\* The spec's scenario scaled to the bounds: closed by the second tick.
C5_Witness ==
    /\ mode = "run_ticked" /\ closeIdx > 0 /\ trace[closeIdx].op = "on_tick"
    /\ pc = "terminated" /\ tick_rate[1] > 0 /\ TicksUpTo(closeIdx) = 2

\* C6: the poll timeout is tick_rate minus the time since last_tick when that
\* is not negative, and zero otherwise; so it lies between 0 and tick_rate.
C6_TimeoutClamped ==
    (mode = "run_ticked" /\ pc = "poll")
        => LET rem == tick_rate[1] - (now - last_tick)
           IN  /\ timeout = IF rem >= 0 THEN rem ELSE 0
               /\ 0 <= timeout /\ timeout <= tick_rate[1]

\* A draw that took longer than a non-zero interval.
C6_Witness ==
    /\ mode = "run_ticked" /\ pc = "poll"
    /\ tick_rate[1] > 0 /\ now - last_tick > tick_rate[1]

\* C7: after a successful destroy_app the terminal is cooked, on the primary
\* screen, with mouse reporting off and the cursor visible, whatever ran
\* since new / new_ticked.
C7_DestroyRestoresTerminal == phase = "released" => term = CookedTerm

\* A run that drew (and so hid the cursor) and was then torn down.
C7_Witness == phase = "released" /\ Calls("draw") > 0 /\ Calls("terminal.draw") > 0

\* C8: within an iteration the application is called in the order draw, then
\* at most one on_input_received, then (run_ticked only) at most one on_tick.
C8_CallOrder ==
    LET calls == IterCalls(trace)
    IN  /\ calls \in {<<>>, <<"draw">>, <<"draw", "on_input_received">>,
                      <<"draw", "on_tick">>,
                      <<"draw", "on_input_received", "on_tick">>}
        /\ mode = "run" => Calls("on_tick") = 0

C8_Witness == IterCalls(trace) = <<"draw", "on_input_received", "on_tick">>

\* C9: an I/O error of terminal.draw, read or poll ends the run operation at
\* once: it is the last thing in the trace, the call is Faulted, and the
\* failing iteration has no on_input_received and no on_tick.
C9_ErrorReturnsAtOnce ==
    Failed # {}
        => /\ pc = "faulted"
           /\ Failed = {Len(trace)}
           /\ IterCalls(trace) \in {<<>>, <<"draw">>}

\* A read that fails after a successful poll.
C9_Witness ==
    /\ pc = "faulted" /\ mode = "run_ticked"
    /\ trace[Len(trace)].op = "read" /\ trace[Len(trace)].res = "err"

\* C10: with a tick_rate of zero every poll has a zero timeout and every
\* completed iteration called on_tick exactly once.
C10_ZeroRateTicksEveryIteration ==
    (mode = "run_ticked" /\ tick_rate = Some(0))
        => /\ pc = "poll" => timeout = 0
           /\ pc = "check" => Calls("on_tick") = Calls("is_closed")
           /\ pc = "terminated" => Calls("on_tick") = Calls("is_closed") - 1

C10_Witness ==
    /\ mode = "run_ticked" /\ tick_rate = Some(0) /\ pc = "terminated"
    /\ Calls("on_tick") = 2 /\ now > 0

Sessions == (IF phase \in {"live", "teardown"} THEN 1 ELSE 0) + extra

\* C12: at most one session exists for the process's terminal at any time:
\* a construction before destroy_app yields no second one.
C12_AtMostOneSession == Sessions <= 1

\* C13: as long as destroy_app has not been called the terminal stays in raw
\* mode, on the alternate screen, with mouse reporting on: no step of run or
\* run_ticked changes these flags, also not the panic of a mismatched run nor
\* the return of an I/O error.
C13_RunKeepsTerminalMode ==
    phase = "live" => term.raw /\ term.mouse /\ term.alt

\* A run that returned an I/O error after drawing.
C13_Witness ==
    /\ phase = "live" /\ pc = "faulted" /\ Calls("draw") > 0
    /\ term.raw /\ term.mouse /\ term.alt

\* C14: a mismatched run writes the diagnostic that names the pairs
\* `new` + `run` and `new_ticked` + `run_ticked`, and only then panics.
C14_DiagnosticBeforePanic ==
    pc = "panicked" =>
        /\ trace # <<>>
        /\ trace[Len(trace)].op = "panic"
        /\ \E i \in 1..(Len(trace) - 1) :
              /\ trace[i].op = "eprintln"
              /\ trace[i].ev = "new + run, and new_ticked + run_ticked"
        /\ \A i \in 1..(Len(trace) - 1) : trace[i].op = "eprintln"

\* run on a UI made by new_ticked, with its own first line.
C14_Witness ==
    /\ pc = "panicked" /\ mode = "run" /\ Len(trace) = 3
    /\ trace[1].ev = "run in conjunction with new_ticked"

\* C15: run never calls on_tick and never reaches the poll or the tick
\* check, also for an application that implements Ticked.
C15_RunNeverTicks ==
    mode = "run" =>
        /\ Calls("on_tick") = 0
        /\ pc \notin {"poll", "tickcheck"}

\* A Ticked application run to the end by run, through two events.
C15_Witness ==
    /\ mode = "run" /\ appTicked /\ tick_rate = None
    /\ pc = "terminated" /\ Calls("read") = 2

\* C16: in run_ticked, on_input_received is called only with a key event
\* that was read after a poll that returned true; after a poll that timed
\* out nothing is read or dispatched, and a non-key event read is dropped.
C16_TickedDispatchesPolledKeysOnly ==
    mode = "run_ticked" =>
        \A i \in DOMAIN trace :
            /\ trace[i].op = "on_input_received"
                  => /\ i >= 3
                     /\ trace[i].ev = "Key"
                     /\ trace[i-1] = Entry("read", "Key", "ok")
                     /\ trace[i-2] = Entry("poll", "true", "ok")
            /\ (trace[i] = Entry("poll", "false", "ok") /\ i < Len(trace))
                  => trace[i+1].op \notin {"read", "on_input_received"}
            /\ (trace[i].op = "read" /\ trace[i].ev \in EventKinds \ {"Key"}
                  /\ i < Len(trace))
                  => trace[i+1].op # "on_input_received"

\* C17: every iteration of run_ticked ends with the tick check, after a poll
\* that timed out as after one that produced an event: at the loop head
\* either the iteration just called on_tick and last_tick is the current
\* time, or less than tick_rate has passed since last_tick.  No due tick is
\* left behind.
C17_DueTickFires ==
    (mode = "run_ticked" /\ pc = "check" /\ trace # <<>>)
        => IF trace[Len(trace)].op = "on_tick"
           THEN last_tick = now
           ELSE now - last_tick < tick_rate[1]

\* The poll had time left, an event came, and by the end of its dispatch the
\* tick was due: it fired in the same iteration.
C17_Witness ==
    /\ mode = "run_ticked" /\ pc = "check" /\ Len(trace) >= 2
    /\ trace[Len(trace)].op = "on_tick"
    /\ trace[Len(trace) - 1].op = "on_input_received"
    /\ tick_rate[1] > 0 /\ timeout > 0

\* C18: for as long as the UI exists, tick_rate is Some exactly when the UI
\* was made by new_ticked, whatever ran since; and a run operation panics
\* only on a mismatched pair, never on new + run or new_ticked + run_ticked.
C18_ModeFixedAtConstruction ==
    phase \in {"live", "teardown"} =>
        /\ ctor \in {"new", "new_ticked"}
        /\ (tick_rate # None) <=> (ctor = "new_ticked")
        /\ pc = "panicked" => \/ mode = "run" /\ ctor = "new_ticked"
                              \/ mode = "run_ticked" /\ ctor = "new"

\* new_ticked + run_ticked ran to the end, ticking, and new + run likewise
\* is covered by C15_Witness.
C18_Witness ==
    /\ phase = "live" /\ ctor = "new_ticked" /\ mode = "run_ticked"
    /\ pc = "terminated" /\ Calls("on_tick") > 0 /\ tick_rate # None

\* C19: a constructor that failed part-way returned no UI and rolled nothing
\* back: the terminal steps it got through are still in effect, so raw mode
\* stays on when a later step failed.
C19_NoRollback ==
    ctor = "failed" =>
        /\ phase = "none" /\ tick_rate = None
        /\ newSteps >= 1 => term.raw
        /\ newSteps >= 2 => term.mouse
        /\ newSteps >= 3 => term.alt

\* Raw mode on, the execute! of mouse capture and alternate screen failed.
C19_Witness ==
    /\ ctor = "failed" /\ newSteps = 1
    /\ term.raw /\ ~term.mouse /\ ~term.alt

\* C20: on_tick is called only when at least tick_rate has passed since
\* last_tick, which is the start of run_ticked or the end of the previous
\* on_tick.
C20_NoEarlyTick ==
    [][(mode = "run_ticked" /\ mode' = "run_ticked"
          /\ Count(trace', "on_tick") > Calls("on_tick"))
        => now - last_tick >= tick_rate[1]]_vars

\* Two ticks of a non-zero interval.
C20_Witness ==
    /\ mode = "run_ticked" /\ tick_rate # None /\ pc = "check"
    /\ tick_rate[1] > 0 /\ Calls("on_tick") = 2

\* The loop of run_ticked (of run) is running, the application is not closed
\* and nothing has failed.
InTickedLoop ==
    mode = "run_ticked" /\ ~closed /\ pc \in {"check", "draw", "poll", "read", "tickcheck"}
InRunLoop ==
    mode = "run" /\ ~closed /\ pc \in {"check", "draw", "read"}

\* Steps: the clock moves on; on_tick is called; event::poll finds an event;
\* event::read returns in run.
TimePasses == now' > now
OnTickCalled == pc = "tickcheck" /\ Count(trace', "on_tick") > Calls("on_tick")
EventArrives == pc = "poll" /\ pc' = "read"
ReadReturns == mode = "run" /\ pc = "read" /\ pc' # "read"

\* C21: a run_ticked whose application never closes and whose I/O never
\* fails calls on_tick again and again, provided time keeps passing, and
\* also when no event ever arrives (the poll then returns after the time left
\* to the next tick); a run in the same conditions with no event stays in
\* event::read for good.
C21_TicksForever ==
    /\ (<>[]InTickedLoop /\ []<><<TimePasses>>_vars) => []<><<OnTickCalled>>_vars
    /\ (<>[]InTickedLoop /\ <>[][~EventArrives]_vars) => []<><<OnTickCalled>>_vars
    /\ (<>[]InRunLoop /\ <>[][~ReadReturns]_vars) => <>[](pc = "read")

\* An iteration in which the poll timed out with no event, and ticked.
C21_Witness ==
    /\ InTickedLoop /\ pc = "check" /\ tick_rate[1] > 0
    /\ [i \in DOMAIN trace |-> trace[i].op] =
           <<"is_closed", "draw", "terminal.draw", "poll", "on_tick">>
    /\ trace[4].ev = "false"

\* ------------------------------------------------------------ behaviours
Next ==
    \/ New \/ NewTicked \/ NewSecond \/ DropSecond \/ DestroyApp
    \/ Run \/ RunTicked
    \/ IsClosed \/ Draw \/ DrawFailEarly
    \/ Read \/ ReadFail \/ CloseAsync
    \/ Poll \/ PollTimeout \/ PollFail
    \/ TickCheck

Spec == Init /\ [][Next]_vars

\* ------------------------------------------------- runs that never end

\* A UI that new or new_ticked returned, before any run.
LiveInit ==
    /\ variant \in {"lib", "ui"}
    /\ term = AcquireSteps(CookedTerm, 3)
    /\ phase = "live"
    /\ tick_rate \in {None} \cup {Some(tr) : tr \in 0..MaxRate}
    /\ appTicked \in BOOLEAN
    /\ tick_rate # None => appTicked
    /\ closed \in BOOLEAN
    /\ pc = "idle"
    /\ mode = "none"
    /\ now = 0
    /\ last_tick = 0
    /\ timeout = 0
    /\ trace = <<>>
    /\ iters = 0
    /\ closeIdx = 0
    /\ closedAt = 0
    /\ ctor = IF tick_rate = None THEN "new" ELSE "new_ticked"
    /\ newSteps = 3
    /\ extra = 0

\* `while !self.app.is_closed()` in a run followed without end.  The loop
\* reads the clock only through last_tick.elapsed(), so the clock is counted
\* from last_tick on; the trace keeps the calls of the current iteration, and
\* the iterations are not counted.
IsClosedForever ==
    /\ pc = "check"
    /\ trace' = <<Entry("is_closed", "", "")>>
    /\ pc' = LoopHead(closed, mode)
    /\ now' = now - last_tick
    /\ last_tick' = 0
    /\ iters' = 0
    /\ UNCHANGED <<variant, term, phase, tick_rate, appTicked, closed, mode,
                   timeout, closeIdx, closedAt>>
    /\ UNCHANGED <<setup, extra>>

LiveNext ==
    \/ Run \/ RunTicked
    \/ IsClosedForever \/ Draw \/ DrawFailEarly
    \/ Read \/ ReadFail
    \/ Poll \/ PollTimeout \/ PollFail
    \/ TickCheck

\* What the thread running the loop does by itself: every statement of the
\* loop returns, except event::read in run, which waits for the terminal to
\* have an event (in run_ticked it follows a poll that found one).
LoopStep ==
    \/ IsClosedForever \/ Draw \/ DrawFailEarly
    \/ mode = "run_ticked" /\ (Read \/ ReadFail)
    \/ Poll \/ PollTimeout \/ PollFail
    \/ TickCheck

LiveSpec == LiveInit /\ [][LiveNext]_vars /\ WF_vars(LoopStep)
====
